---- MODULE Spec2Model ----
(***************************************************************************)
(* kubex / k8sexec: run a command in the containers of a namespace.        *)
(*                                                                         *)
(* The model covers the run orchestrator of the cmd package (cmd run), the *)
(* stand-alone copy of it in main.go (main run), the remote executor       *)
(* (exec / Exec) in its three copies, and the unique-pod resolver          *)
(* K8SExec.GetUniquePods.  The cluster is a quiescent snapshot: the pods   *)
(* of the namespace are fixed in the initial state, every other answer of  *)
(* the cluster (controllers listed, listing failures, the outcome of a     *)
(* remote execution) is drawn when the program asks for it.                *)
(*                                                                         *)
(* An action is one request to the cluster together with the local         *)
(* computation that follows it up to the next request.                     *)
(***************************************************************************)
EXTENDS Integers, Sequences, FiniteSets, TLC

VARIABLES
    nsPods,      \* the pods of the namespace, in the list order of the API
    pc,          \* "start" | "select" | "exec" | "done" | "exit" | "error" | "panic" | "resolved" | "returned"
    impl,        \* the program running: "cmd" (packages cmd and k8sexec) or "main" (main.go)
    pod,         \* -p flag
    container,   \* -c flag
    argv,        \* history: the argument vector given on the command line
    args,        \* the command vector, after defaulting
    stdinBuf,    \* run's bytes.Buffer holding the captured standard input
    captured,    \* history: the bytes captured from standard input
    enumStatus,  \* the EnumerationStatus under construction
    targets,     \* the (pod, container) pairs the loops of run still have to visit
    requests,    \* history: the requests sent to the cluster, in order
    streams,     \* history: per execution, what the reader handed to it yields
    outcomes,    \* history: per execution, what the cluster answered
    output,      \* what the process printed
    exitCode,    \* process exit code, -2 while running
    res          \* a function called on its own: its arguments and what it returned

vars == <<nsPods, pc, impl, pod, container, argv, args, stdinBuf, captured,
          enumStatus, targets, requests, streams, outcomes, output, exitCode, res>>

----------------------------------------------------------------------------
(* Bounds and sample domains *)

MaxPods == 2        \* pods in the namespace
MaxCtl == 2         \* deployments plus stateful sets in the namespace

NL == "\n"
EmptyMap == [k \in {} |-> "a"]
AppA == [k \in {"app"} |-> "a"]
PodLabelSets == {EmptyMap, AppA}
SelectorSets == {EmptyMap, AppA, [k \in {"app"} |-> "b"]}
Phases == {"Running", "Pending"}
ContainerLists == {<<"app">>, <<"web", "sidecar">>}
ContainerFlags == {"", "web"}
ArgSamples == {<<>>, <<"ls">>}

PodName(i) == "p" \o ToString(i)

(* The namespace: n <= MaxPods pods with distinct names, their label maps
   among labelSets. *)
PodLists(labelSets) ==
    UNION { { [i \in 1..n |-> [Name |-> PodName(i), Phase |-> ph[i],
                               Labels |-> lb[i], Containers |-> cs[i]]] :
                ph \in [1..n -> Phases], lb \in [1..n -> labelSets],
                cs \in [1..n -> ContainerLists] } : n \in 0..MaxPods }

----------------------------------------------------------------------------
(* Text: a Go string is a sequence of one-character strings. *)

(* A line scanner in place of strings.Split: no line for an empty text, no
   last line after a final newline. *)
RECURSIVE Split_ScanLines(_)
Split_ScanLines(s) ==
    IF s = <<>> THEN <<>>
    ELSE IF \A i \in 1..Len(s) : s[i] # NL
    THEN <<s>>
    ELSE LET i == CHOOSE j \in 1..Len(s) :
                      s[j] = NL /\ \A k \in 1..(j - 1) : s[k] # NL
         IN <<SubSeq(s, 1, i - 1)>> \o Split_ScanLines(SubSeq(s, i + 1, Len(s)))

(* strings.Split(s, "\n") *)
RECURSIVE Split(_)
Split(s) ==
    IF \A i \in 1..Len(s) : s[i] # NL
    THEN <<s>>
    ELSE LET i == CHOOSE j \in 1..Len(s) :
                      s[j] = NL /\ \A k \in 1..(j - 1) : s[k] # NL
         IN <<SubSeq(s, 1, i - 1)>> \o Split(SubSeq(s, i + 1, Len(s)))

NewExecutionStatus(podName, containerName, retCode, error, stdout, stderr) ==
    [Pod |-> podName, Container |-> containerName, RetCode |-> retCode,
     Error |-> Split(error), Stdout |-> Split(stdout), Stderr |-> Split(stderr)]

----------------------------------------------------------------------------
(* K8SExec.GetUniquePods *)

mapToLabelSelector(labels) == { <<k, labels[k]>> : k \in DOMAIN labels }

(* A listing in which the empty selector selects no pod. *)
Matches_EmptySelectsNone(p, selector) ==
    /\ selector # {}
    /\ \A kv \in selector : kv[1] \in DOMAIN p.Labels /\ p.Labels[kv[1]] = kv[2]

(* The API server's answer to a pod listing with a label selector: the pods
   carrying every key=value pair of the selector, in list order. *)
Matches(p, selector) ==
    \A kv \in selector : kv[1] \in DOMAIN p.Labels /\ p.Labels[kv[1]] = kv[2]

GetPods(pods, selector) == SelectSeq(pods, LAMBDA p : Matches(p, selector))

Names(pods) == { pods[i].Name : i \in 1..Len(pods) }

(* The loop over the controllers leaving at the first listing that fails. *)
RECURSIVE ControllerLoop_AbortOnError(_, _, _, _, _)
ControllerLoop_AbortOnError(pods, ctls, errs, unique, claimed) ==
    IF ctls = <<>> \/ Head(errs)
    THEN [unique |-> unique, claimed |-> claimed]
    ELSE LET listed == GetPods(pods, mapToLabelSelector(Head(ctls)))
             u == IF Len(listed) > 0 THEN Append(unique, listed[1]) ELSE unique
             c == [n \in DOMAIN claimed \cup Names(listed) |->
                      (IF n \in DOMAIN claimed THEN claimed[n] ELSE 0)
                      + Cardinality({i \in 1..Len(listed) : listed[i].Name = n})]
         IN ControllerLoop_AbortOnError(pods, Tail(ctls), Tail(errs), u, c)

(* The loop over the controllers recording as claimed only the pod it appends. *)
RECURSIVE ControllerLoop_ClaimFirstOnly(_, _, _, _, _)
ControllerLoop_ClaimFirstOnly(pods, ctls, errs, unique, claimed) ==
    IF ctls = <<>>
    THEN [unique |-> unique, claimed |-> claimed]
    ELSE IF Head(errs)
    THEN ControllerLoop_ClaimFirstOnly(pods, Tail(ctls), Tail(errs), unique, claimed)
    ELSE LET listed == GetPods(pods, mapToLabelSelector(Head(ctls)))
             u == IF Len(listed) > 0 THEN Append(unique, listed[1]) ELSE unique
             first == IF Len(listed) > 0 THEN {listed[1].Name} ELSE {}
             c == [n \in DOMAIN claimed \cup first |->
                      (IF n \in DOMAIN claimed THEN claimed[n] ELSE 0)
                      + (IF n \in first THEN 1 ELSE 0)]
         IN ControllerLoop_ClaimFirstOnly(pods, Tail(ctls), Tail(errs), u, c)

(* One "for _, controller := range ...Items" loop.  ctls[i] is the match-labels
   map of the i-th controller, errs[i] whether its pod listing fails.  Returns
   the representatives appended and the map of claimed pod names. *)
RECURSIVE ControllerLoop(_, _, _, _, _)
ControllerLoop(pods, ctls, errs, unique, claimed) ==
    IF ctls = <<>>
    THEN [unique |-> unique, claimed |-> claimed]
    ELSE IF Head(errs)
    THEN ControllerLoop(pods, Tail(ctls), Tail(errs), unique, claimed)
    ELSE LET listed == GetPods(pods, mapToLabelSelector(Head(ctls)))
             u == IF Len(listed) > 0 THEN Append(unique, listed[1]) ELSE unique
             c == [n \in DOMAIN claimed \cup Names(listed) |->
                      (IF n \in DOMAIN claimed THEN claimed[n] ELSE 0)
                      + Cardinality({i \in 1..Len(listed) : listed[i].Name = n})]
         IN ControllerLoop(pods, Tail(ctls), Tail(errs), u, c)

EmptyCount == [n \in {} |-> 0]

(* GetUniquePods without its pass over the pods of the namespace. *)
GetUniquePods_NoStandalone(pods, deployments, depErrs, statefulSets, stsErrs, errAt) ==
    LET d == ControllerLoop(pods, deployments, depErrs, <<>>, EmptyCount)
        s == ControllerLoop(pods, statefulSets, stsErrs, d.unique, EmptyCount)
    IN [count |-> IF errAt = "" THEN Len(pods) ELSE 0,
        uniquePods |-> IF errAt = "" THEN s.unique ELSE <<>>,
        err |-> errAt # "",
        deploymentPods |-> d.claimed, statefulSetsPods |-> s.claimed]

(* errAt: which of the three whole-namespace listings fails, "" for none. *)
GetUniquePods(pods, deployments, depErrs, statefulSets, stsErrs, errAt) ==
    IF errAt = "deployments"
    THEN [count |-> 0, uniquePods |-> <<>>, err |-> TRUE,
          deploymentPods |-> EmptyCount, statefulSetsPods |-> EmptyCount]
    ELSE LET d == ControllerLoop(pods, deployments, depErrs, <<>>, EmptyCount)
         IN IF errAt = "statefulsets"
            THEN [count |-> 0, uniquePods |-> <<>>, err |-> TRUE,
                  deploymentPods |-> d.claimed, statefulSetsPods |-> EmptyCount]
            ELSE LET s == ControllerLoop(pods, statefulSets, stsErrs, d.unique, EmptyCount)
                 IN IF errAt = "pods"
                    THEN [count |-> 0, uniquePods |-> <<>>, err |-> TRUE,
                          deploymentPods |-> d.claimed, statefulSetsPods |-> s.claimed]
                    ELSE [count |-> Len(pods),
                          uniquePods |-> s.unique \o
                              SelectSeq(pods, LAMBDA p :
                                  /\ p.Name \notin DOMAIN d.claimed
                                  /\ p.Name \notin DOMAIN s.claimed),
                          err |-> FALSE,
                          deploymentPods |-> d.claimed,
                          statefulSetsPods |-> s.claimed]

NoRes == [called |-> FALSE]

(* A caller of the k8sexec package asks for the unique pods of the namespace. *)
CallGetUniquePods ==
    /\ pc = "start"
    /\ \E nd \in 0..MaxCtl :
       \E ns \in 0..(MaxCtl - nd) :
       \E deployments \in [1..nd -> SelectorSets], depErrs \in [1..nd -> BOOLEAN],
          statefulSets \in [1..ns -> SelectorSets], stsErrs \in [1..ns -> BOOLEAN],
          errAt \in {"", "deployments", "statefulsets", "pods"} :
          /\ errAt = "deployments" => nd = 0 /\ ns = 0
          /\ errAt = "statefulsets" => ns = 0
          /\ res' = [called |-> TRUE,
                     deployments |-> deployments, depErrs |-> depErrs,
                     statefulSets |-> statefulSets, stsErrs |-> stsErrs,
                     errAt |-> errAt,
                     ret |-> GetUniquePods(nsPods, deployments, depErrs,
                                           statefulSets, stsErrs, errAt)]
    /\ pc' = "resolved"
    /\ UNCHANGED <<nsPods, impl, pod, container, argv, args, stdinBuf, captured,
                   enumStatus, targets, requests, streams, outcomes, output, exitCode>>

----------------------------------------------------------------------------
(* bytes.Buffer, as far as run uses it: the backing bytes and the read offset. *)

NewBuffer(bytes) == [buf |-> bytes, off |-> 0]
Bytes(b) == SubSeq(b.buf, b.off + 1, Len(b.buf))
BufLen(b) == Len(b.buf) - b.off

(* The reader side after n of the unread bytes were read.  A reader that read
   the buffer to its end asked once more and got io.EOF: that Read finds the
   buffer empty and resets it. *)
ReadN(b, n) ==
    IF n = BufLen(b) THEN [buf |-> <<>>, off |-> 0]
    ELSE [buf |-> b.buf, off |-> b.off + n]

(* How much of its input a remote execution may have read when it ends. *)
ReadAmounts(b) == {0, BufLen(b) \div 2, BufLen(b)}

----------------------------------------------------------------------------
(* The remote executor *)

SetupErrText == <<"s">>       \* NewSPDYExecutor failed
StreamErrText == <<"t">>      \* the stream failed, not a process exit
ExitErrText == <<"x">>        \* CodeExitError.Error()
OutText == <<"o", NL, "k">>
PartialOut == <<"o">>
ErrOutText == <<"w">>
ExitCodeSamples == {137}

(* What the cluster answers to one exec request. *)
ExecOutcomes ==
    {[kind |-> "setup_err", code |-> 0, stdout |-> <<>>, stderr |-> <<>>]}
    \cup {[kind |-> "stream_err", code |-> 0, stdout |-> o, stderr |-> <<>>] :
             o \in {<<>>, PartialOut}}
    \cup {[kind |-> "exit", code |-> c, stdout |-> OutText, stderr |-> ErrOutText] :
             c \in ExitCodeSamples}
    \cup {[kind |-> "ok", code |-> 0, stdout |-> OutText, stderr |-> <<>>]}

NilErr == [nil |-> TRUE, text |-> <<>>]
Err(text) == [nil |-> FALSE, text |-> text]

(* K8SExec.exec falling through to "return 0, nil" on a stream error that is
   not a process exit. *)
K8SExec_exec_Fallthrough(o) ==
    IF o.kind = "setup_err" THEN [retCode |-> -1, err |-> Err(SetupErrText)]
    ELSE IF o.kind = "exit" THEN [retCode |-> o.code, err |-> Err(ExitErrText)]
    ELSE [retCode |-> 0, err |-> NilErr]

(* K8SExec.exec of package k8sexec *)
K8SExec_exec(o) ==
    IF o.kind = "setup_err" THEN [retCode |-> -1, err |-> Err(SetupErrText)]
    ELSE IF o.kind = "exit" THEN [retCode |-> o.code, err |-> Err(ExitErrText)]
    ELSE IF o.kind = "stream_err" THEN [retCode |-> -1, err |-> Err(StreamErrText)]
    ELSE [retCode |-> 0, err |-> NilErr]

(* exec of main.go: after StreamWithContext the error is never looked at (the
   statement at line 246 is a stray token), the function returns 0, nil. *)
main_exec(o) ==
    IF o.kind = "setup_err" THEN [retCode |-> -1, err |-> Err(SetupErrText)]
    ELSE [retCode |-> 0, err |-> NilErr]

(* exec of the older stand-alone program *)
legacy_exec(o) ==
    IF o.kind = "setup_err" THEN [retCode |-> -1, err |-> Err(SetupErrText)]
    ELSE IF o.kind = "stream_err" THEN [retCode |-> -1, err |-> Err(StreamErrText)]
    ELSE IF o.kind = "exit" THEN [retCode |-> o.code, err |-> Err(ExitErrText)]
    ELSE [retCode |-> 0, err |-> NilErr]

exec(im, o) == IF im = "cmd" THEN K8SExec_exec(o) ELSE main_exec(o)

(* K8SExec.Exec / Exec of main.go *)
Exec(im, podName, containerName, o) ==
    LET r == exec(im, o)
        errMessage == IF r.err.nil THEN <<>> ELSE r.err.text
    IN NewExecutionStatus(podName, containerName, r.retCode, errMessage,
                          o.stdout, o.stderr)

----------------------------------------------------------------------------
(* The run orchestrator *)

SummaryLimit == 40
TooLong == <<".", ".", ".", " ", "t", "o", "o", " ", "l", "o", "n", "g">>
namespace == "default"

StdinShort == <<"l", "s", NL>>
StdinLong == [i \in 1..(SummaryLimit + 1) |-> ToString(i % 10)]
StdinSamples == {<<>>, StdinShort, StdinLong}
PodFlags == {"", PodName(1), PodName(2)}

(* NewEnumerationStatus of package cmd *)
cmd_NewEnumerationStatus(pipeCommand, command) ==
    [panic |-> FALSE,
     enum |-> [Stdin |-> IF Len(pipeCommand) > SummaryLimit
                         THEN SubSeq(pipeCommand, 1, SummaryLimit) \o TooLong
                         ELSE pipeCommand,
               Args |-> command, Namespace |-> namespace, Statuses |-> <<>>]]

(* NewEnumerationStatus of main.go: slices the first 40 bytes of every
   non-empty input; slicing a shorter string panics. *)
main_NewEnumerationStatus(pipeCommand, command) ==
    IF Len(pipeCommand) > 0 /\ Len(pipeCommand) < SummaryLimit
    THEN [panic |-> TRUE,
          enum |-> [Stdin |-> <<>>, Args |-> command, Namespace |-> namespace,
                    Statuses |-> <<>>]]
    ELSE [panic |-> FALSE,
          enum |-> [Stdin |-> IF Len(pipeCommand) > 0
                              THEN SubSeq(pipeCommand, 1, SummaryLimit) \o TooLong
                              ELSE pipeCommand,
                    Args |-> command, Namespace |-> namespace, Statuses |-> <<>>]]

NewEnumerationStatus(im, pipeCommand, command) ==
    IF im = "cmd" THEN cmd_NewEnumerationStatus(pipeCommand, command)
    ELSE main_NewEnumerationStatus(pipeCommand, command)

(* "switch format" at the end of run, for the two formats of the -o flag.
   Both print the whole aggregate; which of the two did is not kept. *)
Render(e) == [kind |-> "result", enum |-> e]
Fatal(text) == [kind |-> "fatal", text |-> text, pod |-> ""]
NotRunning(p) == [kind |-> "fatal", text |-> "is not in Running phase", pod |-> p]

(* The switch taking the all-pods case whenever no pod is named. *)
Mode_NoPodIsAll(p, c) ==
    IF p # "" /\ c = "" THEN "pod"
    ELSE IF p # "" /\ c # "" THEN "container"
    ELSE "all"

(* The selection case of run's switch the flags fall in. *)
Mode(p, c) ==
    IF p # "" /\ c = "" THEN "pod"
    ELSE IF p # "" /\ c # "" THEN "container"
    ELSE IF p = "" /\ c = "" THEN "all"
    ELSE "none"

(* The command vector substituted for every non-empty input, whatever the
   arguments. *)
DefaultCommand_Always(data, a) ==
    IF Len(data) > 0 THEN <<"sh">> ELSE a

(* "if stdinBuf.Len() > 0 && len(args) == 0 { args = []string{"sh"} }" *)
DefaultCommand(data, a) ==
    IF Len(data) > 0 /\ Len(a) = 0 THEN <<"sh">> ELSE a

(* The process exit code taken from the targets: 1 as soon as one returned a
   code other than 0. *)
Finish_WorstCode(e) ==
    /\ pc' = "done"
    /\ exitCode' = IF \E i \in 1..Len(e.Statuses) : e.Statuses[i].RetCode # 0
                   THEN 1 ELSE 0
    /\ output' = Append(output, Render(e))

(* run has returned nil after rendering e. *)
Finish(e) ==
    /\ pc' = "done"
    /\ exitCode' = 0
    /\ output' = Append(output, Render(e))

(* os.Exit(1) after printing msg. *)
Exit1(msg) ==
    /\ pc' = "exit"
    /\ exitCode' = 1
    /\ output' = Append(output, msg)

(* run, from its first line up to the switch on the flags.  cfgOk: the
   kubeconfig loads; readOk: reading the piped standard input succeeds. *)
Run ==
    /\ pc = "start"
    /\ \E cfgOk \in BOOLEAN, readOk \in BOOLEAN,
          data \in StdinSamples, a \in ArgSamples, p \in PodFlags,
          c \in ContainerFlags :
          LET im == impl
              command == DefaultCommand(data, a)
              new == NewEnumerationStatus(im, data, command)
          IN
          /\ pod' = p /\ container' = c /\ argv' = a
          /\ IF ~cfgOk
             THEN /\ Exit1(Fatal("kubeconfig"))
                  /\ UNCHANGED <<args, stdinBuf, captured, enumStatus>>
             ELSE IF ~readOk
             THEN /\ Exit1(Fatal("Failed to read stdin"))
                  /\ UNCHANGED <<args, stdinBuf, captured, enumStatus>>
             ELSE /\ stdinBuf' = NewBuffer(data)
                  /\ captured' = data
                  /\ IF im = "cmd" /\ Len(data) = 0 /\ Len(a) = 0
                     THEN /\ pc' = "error"
                          /\ exitCode' = 1
                          /\ output' = Append(output,
                                 Fatal("No commands provided either by stdin or arguments."))
                          /\ UNCHANGED <<args, enumStatus>>
                     ELSE /\ args' = command
                          /\ IF new.panic
                             THEN /\ pc' = "panic"
                                  /\ exitCode' = 2
                                  /\ UNCHANGED <<output, enumStatus>>
                             ELSE /\ enumStatus' = new.enum
                                  /\ IF Mode(p, c) = "none"
                                     THEN Finish(new.enum)
                                     ELSE /\ pc' = "select"
                                          /\ UNCHANGED <<output, exitCode>>
    /\ UNCHANGED <<nsPods, impl, targets, requests, streams, outcomes, res>>

(* The loop over the containers of a pod running from the last to the first. *)
ContainerTargets_Reversed(p) ==
    [i \in 1..Len(p.Containers) |->
        [pod |-> p.Name, container |-> p.Containers[Len(p.Containers) + 1 - i]]]

(* "for _, _container := range _pod.Spec.Containers": the targets of one pod *)
ContainerTargets(p) ==
    [i \in 1..Len(p.Containers) |-> [pod |-> p.Name, container |-> p.Containers[i]]]

(* The loop over the pods stopping after the first Running pod. *)
RunningTargets_FirstOnly(pods) ==
    LET running == SelectSeq(pods, LAMBDA p : p.Phase = "Running")
    IN IF running = <<>> THEN <<>> ELSE ContainerTargets(running[1])

RECURSIVE RunningTargets(_)
RunningTargets(pods) ==
    IF pods = <<>> THEN <<>>
    ELSE (IF Head(pods).Phase = "Running" THEN ContainerTargets(Head(pods)) ELSE <<>>)
         \o RunningTargets(Tail(pods))

(* Visit the targets ts, or render at once when there is none. *)
Visit(ts) ==
    /\ targets' = ts
    /\ IF ts = <<>>
       THEN Finish(enumStatus)
       ELSE /\ pc' = "exec"
            /\ UNCHANGED <<output, exitCode>>

(* The pod case treating a pod that is not Running as the container case does. *)
PodCase_Fatal(_pod) ==
    IF _pod.Phase # "Running"
    THEN /\ Exit1(NotRunning(pod))
         /\ UNCHANGED targets
    ELSE Visit(ContainerTargets(_pod))

(* case pod != "" && container == "", after the pod was fetched. *)
PodCase(_pod) ==
    IF _pod.Phase = "Running"
    THEN Visit(ContainerTargets(_pod))
    ELSE Visit(<<>>)

(* The container case treating a pod that is not Running as the pod case does. *)
ContainerCase_Silent(_pod) ==
    IF _pod.Phase = "Running"
    THEN Visit(<<[pod |-> pod, container |-> container]>>)
    ELSE Visit(<<>>)

(* case pod != "" && container != "", after the pod was fetched. *)
ContainerCase(_pod) ==
    IF _pod.Phase # "Running"
    THEN /\ Exit1(NotRunning(pod))
         /\ UNCHANGED targets
    ELSE Visit(<<[pod |-> pod, container |-> container]>>)

(* The two cases with pod != "": Pods(namespace).Get(pod), then the case's
   own code.  fail: the request fails for another reason than a missing pod. *)
GetPod ==
    /\ pc = "select"
    /\ pod # ""
    /\ \E fail \in BOOLEAN :
          LET found == { i \in 1..Len(nsPods) : nsPods[i].Name = pod }
              ok == ~fail /\ found # {}
          IN
          /\ requests' = Append(requests, [op |-> "get", pod |-> pod, container |-> "",
                                            cmd |-> <<>>, ok |-> ok])
          /\ IF ~ok
             THEN /\ Exit1(Fatal("get pod"))
                  /\ UNCHANGED targets
             ELSE LET _pod == nsPods[CHOOSE i \in found : TRUE] IN
                  IF container = "" THEN PodCase(_pod) ELSE ContainerCase(_pod)
    /\ UNCHANGED <<nsPods, impl, pod, container, argv, args, stdinBuf, captured,
                   enumStatus, streams, outcomes, res>>

(* case pod == "" && container == "": GetPods with empty list options, then
   the loop over the pods. *)
ListPods ==
    /\ pc = "select"
    /\ Mode(pod, container) = "all"
    /\ \E fail \in BOOLEAN :
          /\ requests' = Append(requests, [op |-> "list", pod |-> "", container |-> "",
                                            cmd |-> <<>>, ok |-> ~fail])
          /\ IF fail
             THEN /\ Exit1(Fatal("list pods"))
                  /\ UNCHANGED targets
             ELSE Visit(RunningTargets(GetPods(nsPods, mapToLabelSelector(EmptyMap))))
    /\ UNCHANGED <<nsPods, impl, pod, container, argv, args, stdinBuf, captured,
                   enumStatus, streams, outcomes, res>>

(* Every execution handed the capture buffer itself. *)
StreamFor_Shared(mode, buf) == [shared |-> TRUE, b |-> buf]

(* The reader an execution is handed: the capture buffer itself in the
   pod-and-container case, bytes.NewBuffer(stdinBuf.Bytes()) in the loops.
   shared: reading from it moves the capture buffer's read offset. *)
StreamFor(mode, buf) ==
    IF mode = "container"
    THEN [shared |-> TRUE, b |-> buf]
    ELSE [shared |-> FALSE, b |-> NewBuffer(Bytes(buf))]

(* The loops breaking at the first status whose code is not 0. *)
Remaining_StopOnFailure(ts, status) ==
    IF status.RetCode # 0 THEN <<>> ELSE Tail(ts)

(* The targets left after an execution returned status: the loops test
   nothing of it. *)
Remaining(ts, status) == Tail(ts)

(* One Exec of run: the next iteration of the loop over the containers, or the
   single Exec of the pod-and-container case; the status is appended, and
   after the last one the result is rendered. *)
ExecNext ==
    /\ pc = "exec"
    /\ targets # <<>>
    /\ LET t == Head(targets)
           streamedCmd == StreamFor(Mode(pod, container), stdinBuf)
       IN
       /\ streams' = Append(streams, Bytes(streamedCmd.b))
       /\ \E o \in ExecOutcomes :
          \E n \in (IF o.kind = "setup_err" THEN {0} ELSE ReadAmounts(streamedCmd.b)) :
             LET status == Exec(impl, t.pod, t.container, o)
                 e == [enumStatus EXCEPT !.Statuses = Append(@, status)]
                 rest == Remaining(targets, status)
             IN
             /\ requests' = Append(requests, [op |-> "exec", pod |-> t.pod,
                                   container |-> t.container, cmd |-> args,
                                   ok |-> o.kind # "setup_err"])
             /\ outcomes' = Append(outcomes, o)
             /\ stdinBuf' = IF streamedCmd.shared THEN ReadN(streamedCmd.b, n)
                            ELSE stdinBuf
             /\ enumStatus' = e
             /\ targets' = rest
             /\ IF rest = <<>>
                THEN Finish(e)
                ELSE /\ pc' = "exec"
                     /\ UNCHANGED <<output, exitCode>>
    /\ UNCHANGED <<nsPods, impl, pod, container, argv, args, captured, res>>

----------------------------------------------------------------------------
(* The exit code classifier *)

(* var ExitCodes of package k8sexec *)
ExitCodes ==
    (-1 :> "Internal app error") @@
    (0 :> "Success") @@
    (1 :> "General error, unspecified error") @@
    (2 :> "Misuse of shell builtins") @@
    (126 :> "Command cannot execute") @@
    (127 :> "Command not found") @@
    (128 :> "Invalid argument to exit") @@
    (130 :> "Script terminated by Control-C (SIGINT)") @@
    (255 :> "Exit status out of range") @@
    (129 :> "Fatal error signal 1 (SIGHUP)") @@
    (131 :> "Fatal error signal 3 (SIGQUIT)") @@
    (132 :> "Fatal error signal 4 (SIGILL)") @@
    (133 :> "Fatal error signal 5 (SIGTRAP)") @@
    (134 :> "Fatal error signal 6 (SIGABRT/SIGIOT)") @@
    (135 :> "Fatal error signal 7 (SIGBUS)") @@
    (136 :> "Fatal error signal 8 (SIGFPE)") @@
    (137 :> "Fatal error signal 9 (SIGKILL)") @@
    (138 :> "Fatal error signal 10 (SIGUSR1)") @@
    (139 :> "Fatal error signal 11 (SIGSEGV)") @@
    (140 :> "Fatal error signal 12 (SIGUSR2)") @@
    (141 :> "Fatal error signal 13 (SIGPIPE)") @@
    (142 :> "Fatal error signal 14 (SIGALRM)") @@
    (143 :> "Fatal error signal 15 (SIGTERM)")

(* var ExitCodes of main.go: the same table but for the entry of 130. *)
main_ExitCodes ==
    [c \in DOMAIN ExitCodes |->
        IF c = 130 THEN "Fatal error signal 2 (SIGINT)" ELSE ExitCodes[c]]

(* GetExitCodeDescription answering an unknown code as GetExitCode does. *)
GetExitCodeDescription_NotFound(code) ==
    IF code \notin DOMAIN ExitCodes
    THEN "Exit code " \o ToString(code) \o " description not found!"
    ELSE ExitCodes[code]

GetExitCodeDescription(code) ==
    IF code \notin DOMAIN ExitCodes THEN "" ELSE ExitCodes[code]

(* getExitCodeDescription of main.go *)
main_getExitCodeDescription(code) ==
    IF code \notin DOMAIN main_ExitCodes THEN "" ELSE main_ExitCodes[code]

(* An error value: nil, an error that is no CodeExitError, or a CodeExitError
   carrying a code. *)
ErrKinds == {"nil", "other", "exit"}

(* GetExitCode of package k8sexec; errors.As fails on nil and on every error
   that is no CodeExitError. *)
GetExitCode(err) ==
    IF err.kind # "exit" THEN [code |-> -1, desc |-> ""]
    ELSE IF err.code \notin DOMAIN ExitCodes
    THEN [code |-> err.code,
          desc |-> "Exit code " \o ToString(err.code) \o " description not found!"]
    ELSE [code |-> err.code, desc |-> ExitCodes[err.code]]

(* getExitCode of main.go *)
main_getExitCode(err) ==
    IF err.kind # "exit" THEN [code |-> -1, desc |-> ""]
    ELSE IF err.code \notin DOMAIN main_ExitCodes THEN [code |-> -1, desc |-> ""]
    ELSE [code |-> err.code, desc |-> main_ExitCodes[err.code]]

----------------------------------------------------------------------------
(* The functions of the packages called on their own.  res keeps the function
   called, its arguments and what it returned. *)

MaxText == 3        \* length of the texts handed to NewExecutionStatus
SummaryInputs ==
    { [i \in 1..n |-> ToString(i % 10)] : n \in 0..(SummaryLimit + 2) }
CodeSamples == (-2..256) \cup {9999}
Texts == UNION { [1..n -> {"a", NL}] : n \in 0..MaxText }

(* strings.Join(lines, "\n") of the text rendering *)
RECURSIVE Join(_)
Join(lines) ==
    IF lines = <<>> THEN <<>>
    ELSE IF Len(lines) = 1 THEN lines[1]
    ELSE lines[1] \o <<NL>> \o Join(Tail(lines))

LibUnchanged ==
    UNCHANGED <<nsPods, impl, pod, container, argv, args, stdinBuf, captured,
                enumStatus, targets, requests, streams, outcomes, output, exitCode>>

CallGetExitCodeDescription ==
    /\ pc = "start"
    /\ \E code \in CodeSamples :
          res' = [called |-> TRUE, fn |-> "GetExitCodeDescription", code |-> code,
                  ret |-> GetExitCodeDescription(code)]
    /\ pc' = "returned"
    /\ LibUnchanged

CallGetExitCode ==
    /\ pc = "start"
    /\ \E im \in {"cmd", "main"}, kind \in ErrKinds, code \in CodeSamples :
          /\ kind # "exit" => code = 0
          /\ LET err == [kind |-> kind, code |-> code] IN
             res' = [called |-> TRUE, fn |-> "GetExitCode", im |-> im, err |-> err,
                     ret |-> IF im = "cmd" THEN GetExitCode(err)
                             ELSE main_getExitCode(err)]
    /\ pc' = "returned"
    /\ LibUnchanged

CallNewEnumerationStatus ==
    /\ pc = "start"
    /\ \E im \in {"cmd", "main"}, pipeCommand \in SummaryInputs, command \in ArgSamples :
          res' = [called |-> TRUE, fn |-> "NewEnumerationStatus", im |-> im,
                  pipeCommand |-> pipeCommand,
                  ret |-> NewEnumerationStatus(im, pipeCommand, command)]
    /\ pc' = "returned"
    /\ LibUnchanged

CallNewExecutionStatus ==
    /\ pc = "start"
    /\ \E error \in Texts, stdout \in Texts, stderr \in Texts :
          res' = [called |-> TRUE, fn |-> "NewExecutionStatus",
                  error |-> error, stdout |-> stdout, stderr |-> stderr,
                  ret |-> NewExecutionStatus(PodName(1), "app", 0, error, stdout, stderr)]
    /\ pc' = "returned"
    /\ LibUnchanged

----------------------------------------------------------------------------
(* The state before the program runs. *)
Start ==
    /\ pc = "start"
    /\ pod = ""
    /\ container = ""
    /\ argv = <<>>
    /\ args = <<>>
    /\ stdinBuf = NewBuffer(<<>>)
    /\ captured = <<>>
    /\ enumStatus = [Stdin |-> <<>>, Args |-> <<>>, Namespace |-> namespace,
                     Statuses |-> <<>>]
    /\ targets = <<>>
    /\ requests = <<>>
    /\ streams = <<>>
    /\ outcomes = <<>>
    /\ output = <<>>
    /\ exitCode = -2
    /\ res = NoRes

(* The program built from package cmd and package k8sexec.  run reads no
   label: the pods of its namespace all carry app=a, the replicas of one
   workload. *)
Init == Start /\ impl = "cmd" /\ nsPods \in PodLists({AppA})

Next ==
    \/ Run
    \/ GetPod
    \/ ListPods
    \/ ExecNext

Spec == Init /\ [][Next]_vars

(* The stand-alone program of main.go. *)
InitMain == Start /\ impl = "main" /\ nsPods \in PodLists({AppA})

SpecMain == InitMain /\ [][Next]_vars

(* The resolver of package k8sexec, called on a namespace of labelled and
   unlabelled pods. *)
InitUnique == Start /\ impl = "cmd" /\ nsPods \in PodLists(PodLabelSets)

NextUnique == CallGetUniquePods

SpecUnique == InitUnique /\ [][NextUnique]_vars

(* The exit code classifier and the two status constructors, each called on
   its own. *)
InitLib == Start /\ impl = "cmd" /\ nsPods = <<>>

NextLib ==
    \/ CallGetExitCodeDescription
    \/ CallGetExitCode
    \/ CallNewEnumerationStatus
    \/ CallNewExecutionStatus

SpecLib == InitLib /\ [][NextLib]_vars

----------------------------------------------------------------------------
(* Vocabulary of the properties *)

Statuses == enumStatus.Statuses
ExecRequests == SelectSeq(requests, LAMBDA r : r.op = "exec")
ExecutedPods == { ExecRequests[i].pod : i \in 1..Len(ExecRequests) }
RunningNames(pods) == { pods[i].Name : i \in { j \in 1..Len(pods) : pods[j].Phase = "Running" } }
Occurrences(pods, name) == Cardinality({ i \in 1..Len(pods) : pods[i].Name = name })
Rendered == \E i \in 1..Len(output) : output[i].kind = "result"
IsFailure(o) == o.kind \in {"setup_err", "stream_err", "exit"}
ErrorTextOf(o) ==
    IF o.kind = "setup_err" THEN SetupErrText
    ELSE IF o.kind = "stream_err" THEN StreamErrText
    ELSE ExitErrText

(* The pod a successful Get of the -p flag returned. *)
Fetched == requests # <<>> /\ requests[1].op = "get" /\ requests[1].ok
NamedPod == nsPods[CHOOSE i \in 1..Len(nsPods) : nsPods[i].Name = pod]

(* The target sequence of a run, from the namespace and the flags. *)
TargetSeq ==
    IF Mode(pod, container) = "all" THEN RunningTargets(nsPods)
    ELSE IF Mode(pod, container) = "pod"
    THEN IF NamedPod.Phase = "Running" THEN ContainerTargets(NamedPod) ELSE <<>>
    ELSE IF Mode(pod, container) = "container"
    THEN <<[pod |-> pod, container |-> container]>>
    ELSE <<>>

(* The controllers a namespace may have, none of their listings failing. *)
ControllerConfigs ==
    UNION { [1..nd -> SelectorSets] \X [1..ns -> SelectorSets] :
              nd \in 0..MaxCtl, ns \in 0..MaxCtl }
NoErrs(n) == [i \in 1..n |-> FALSE]
UniqueRunning(deployments, statefulSets) ==
    RunningNames(GetUniquePods(nsPods, deployments, NoErrs(Len(deployments)),
                               statefulSets, NoErrs(Len(statefulSets)), "").uniquePods)

(* p carries every label of matchLabels. *)
SelectedBy(p, matchLabels) ==
    \A k \in DOMAIN matchLabels : k \in DOMAIN p.Labels /\ p.Labels[k] = matchLabels[k]
Unowned(p) ==
    /\ \A k \in 1..Len(res.deployments) : ~SelectedBy(p, res.deployments[k])
    /\ \A k \in 1..Len(res.statefulSets) : ~SelectedBy(p, res.statefulSets[k])
Resolved == pc = "resolved" /\ ~res.ret.err

----------------------------------------------------------------------------
(* C1, as claimed: in the all-pods mode the pods executed against are exactly
   the Running pods among those GetUniquePods returns, whatever controllers
   the namespace has: replicas of one controller are executed against once. *)
C1_UniqueTargetsOnly ==
    (pc = "done" /\ Mode(pod, container) = "all") =>
        \A cfg \in ControllerConfigs : ExecutedPods = UniqueRunning(cfg[1], cfg[2])

(* C1, amended: in the all-pods mode the pods executed against are exactly the
   Running pods of the plain listing of the namespace, every container of each
   executed against once; the resolver is not consulted, so every Running
   replica of a controller is executed against. *)
C1_AllRunningPods ==
    (pc = "done" /\ Mode(pod, container) = "all") =>
        /\ ExecutedPods = RunningNames(nsPods)
        /\ \A i \in 1..Len(nsPods) : \A k \in 1..Len(nsPods[i].Containers) :
              nsPods[i].Phase = "Running" =>
                  Cardinality({ j \in 1..Len(ExecRequests) :
                      /\ ExecRequests[j].pod = nsPods[i].Name
                      /\ ExecRequests[j].container = nsPods[i].Containers[k] }) = 1
        /\ res = NoRes

(* Two Running pods with the same labels, the replicas of a controller
   selecting those labels, were both executed against. *)
C1_Witness ==
    /\ pc = "done" /\ Mode(pod, container) = "all"
    /\ \E i, j \in 1..Len(nsPods) :
          /\ i # j
          /\ nsPods[i].Labels = nsPods[j].Labels /\ nsPods[i].Labels # EmptyMap
          /\ {nsPods[i].Name, nsPods[j].Name} \subseteq ExecutedPods
          /\ nsPods[i].Name \notin UniqueRunning(<<nsPods[i].Labels>>, <<>>)
             \/ nsPods[j].Name \notin UniqueRunning(<<nsPods[i].Labels>>, <<>>)

(* C2, as claimed: the pod list GetUniquePods returns holds each pod name at
   most once, for every content of the namespace. *)
C2_EachPodAtMostOnce ==
    Resolved =>
        \A i, j \in 1..Len(res.ret.uniquePods) :
            i # j => res.ret.uniquePods[i].Name # res.ret.uniquePods[j].Name

(* C3: a pod matched by the selector of no listed deployment and no listed
   stateful set is returned by GetUniquePods exactly once. *)
C3_UnownedPodExactlyOnce ==
    Resolved =>
        \A i \in 1..Len(nsPods) :
            Unowned(nsPods[i]) => Occurrences(res.ret.uniquePods, nsPods[i].Name) = 1

(* A namespace with a controller, a pod it selects and a pod no controller
   selects was resolved. *)
C3_Witness ==
    /\ Resolved
    /\ Len(res.deployments) + Len(res.statefulSets) > 0
    /\ \E i, j \in 1..Len(nsPods) : Unowned(nsPods[i]) /\ ~Unowned(nsPods[j])

(* C4: an execution ending with a transport failure or a non-zero exit code
   is recorded in its target's status, code and error text, and the run goes
   on: while it runs the targets after it are still to be visited, and when it
   is done every target of the sequence has its own status. *)
C4_FailureRecordedRunContinues ==
    (pc \in {"exec", "done"}) =>
        /\ Len(Statuses) = Len(outcomes)
        /\ Len(Statuses) <= Len(TargetSeq)
        /\ \A i \in 1..Len(outcomes) :
              /\ Statuses[i].Pod = TargetSeq[i].pod
              /\ Statuses[i].Container = TargetSeq[i].container
              /\ IsFailure(outcomes[i]) =>
                    /\ Statuses[i].RetCode =
                          (IF outcomes[i].kind = "exit" THEN outcomes[i].code ELSE -1)
                    /\ Statuses[i].RetCode # 0
                    /\ Statuses[i].Error = <<ErrorTextOf(outcomes[i])>>
        /\ pc = "exec" =>
              targets = SubSeq(TargetSeq, Len(Statuses) + 1, Len(TargetSeq))
              /\ targets # <<>>
        /\ pc = "done" => Len(Statuses) = Len(TargetSeq)

(* A run whose first execution failed in transport and whose second ended with
   a non-zero exit code went on to a third target and finished. *)
C4_Witness ==
    /\ pc = "done"
    /\ Len(outcomes) >= 3
    /\ outcomes[1].kind = "stream_err"
    /\ outcomes[2].kind = "exit"

(* C5, as claimed: in every mode every execution's input stream yields the
   whole captured input, and the capture buffer still holds the captured
   bytes after any number of executions. *)
C5_InputReplayedBufferUnchanged ==
    /\ \A i \in 1..Len(streams) : streams[i] = captured
    /\ Bytes(stdinBuf) = captured

(* C5, amended: in every mode every execution's input stream yields the whole
   captured input from its first byte; in the pod mode and the all-pods mode
   the capture buffer is unchanged after any number of executions; in the
   pod-and-container mode the one execution reads the capture buffer itself,
   which is left holding the suffix of the input not yet read. *)
C5_InputReplayed ==
    /\ \A i \in 1..Len(streams) : streams[i] = captured
    /\ Mode(pod, container) # "container" => stdinBuf = NewBuffer(captured)
    /\ Mode(pod, container) = "container" =>
          /\ Len(streams) <= 1
          /\ \E k \in 0..Len(captured) :
                Bytes(stdinBuf) = SubSeq(captured, k + 1, Len(captured))

(* A run with captured input executed against three targets or more. *)
C5_Witness ==
    /\ pc = "done"
    /\ captured # <<>>
    /\ Len(streams) >= 3

(* C6, as claimed: when the channel is established and the remote process
   ends with the non-zero code c, the executor returns c, the status recorded
   has RetCode c; so do K8SExec.exec and the older exec. *)
C6_ExitCodeReturned ==
    \A i \in 1..Len(outcomes) :
        outcomes[i].kind = "exit" =>
            /\ Statuses[i].RetCode = outcomes[i].code
            /\ K8SExec_exec(outcomes[i]).retCode = outcomes[i].code
            /\ legacy_exec(outcomes[i]).retCode = outcomes[i].code

(* C7, as claimed: a failed channel set-up or a stream failure that is not a
   process exit gives RetCode -1, the error text, and Stdout and Stderr each
   the single empty line. *)
C7_TransportFailureEmptyOutput ==
    \A i \in 1..Len(outcomes) :
        outcomes[i].kind \in {"setup_err", "stream_err"} =>
            /\ Statuses[i].RetCode = -1
            /\ Statuses[i].Error = <<ErrorTextOf(outcomes[i])>>
            /\ Statuses[i].Stdout = << <<>> >>
            /\ Statuses[i].Stderr = << <<>> >>

(* C7, amended: a failed channel set-up gives RetCode -1, the error text, and
   Stdout and Stderr each the single empty line; a stream failure that is not
   a process exit gives RetCode -1 and the error text, with Stdout and Stderr
   holding the lines of the output received before the failure. *)
C7_TransportFailure ==
    \A i \in 1..Len(outcomes) :
        /\ outcomes[i].kind = "setup_err" =>
              /\ Statuses[i].RetCode = -1
              /\ Statuses[i].Error = <<SetupErrText>>
              /\ Statuses[i].Stdout = << <<>> >>
              /\ Statuses[i].Stderr = << <<>> >>
        /\ outcomes[i].kind = "stream_err" =>
              /\ Statuses[i].RetCode = -1
              /\ Statuses[i].Error = <<StreamErrText>>
              /\ outcomes[i].stdout = <<>> => Statuses[i].Stdout = << <<>> >>
              /\ outcomes[i].stdout = PartialOut => Statuses[i].Stdout = <<PartialOut>>
              /\ Statuses[i].Stderr = << <<>> >>

(* One run met a failed set-up, a stream failure before any output and a
   stream failure after some output. *)
C7_Witness ==
    \E i, j, k \in 1..Len(outcomes) :
        /\ outcomes[i].kind = "setup_err"
        /\ outcomes[j].kind = "stream_err" /\ outcomes[j].stdout = <<>>
        /\ outcomes[k].kind = "stream_err" /\ outcomes[k].stdout = PartialOut

(* C8: in the pod mode, a fetched pod in phase Running gives one status per
   container of its spec, in declared order; a fetched pod in any other phase
   gives no status, no error, and the empty result is rendered. *)
C8_PodMode ==
    (Mode(pod, container) = "pod" /\ Fetched) =>
        IF NamedPod.Phase = "Running"
        THEN /\ pc \in {"exec", "done"}
             /\ pc = "done" =>
                   /\ Len(Statuses) = Len(NamedPod.Containers)
                   /\ \A i \in 1..Len(Statuses) :
                         /\ Statuses[i].Pod = pod
                         /\ Statuses[i].Container = NamedPod.Containers[i]
                   /\ output = <<Render(enumStatus)>>
                   /\ exitCode = 0
        ELSE /\ pc = "done"
             /\ Statuses = <<>>
             /\ ExecRequests = <<>>
             /\ exitCode = 0
             /\ output = <<Render(enumStatus)>>

(* The pod mode met a pod that is not Running and rendered the empty result. *)
C8_Witness ==
    /\ Mode(pod, container) = "pod" /\ Fetched
    /\ NamedPod.Phase # "Running"
    /\ Len(NamedPod.Containers) = 2
    /\ pc = "done"

(* C9: in the pod-and-container mode, a fetched pod that is not Running ends
   the run with a fatal error naming the pod, nothing executed and no result
   rendered; otherwise exactly one execution is made, against the given pod
   and container, and the result has exactly one status. *)
C9_ContainerMode ==
    (Mode(pod, container) = "container" /\ Fetched) =>
        IF NamedPod.Phase # "Running"
        THEN /\ pc = "exit"
             /\ exitCode = 1
             /\ output = <<NotRunning(pod)>>
             /\ output[1].pod = pod
             /\ ExecRequests = <<>>
             /\ Statuses = <<>>
             /\ ~Rendered
        ELSE /\ pc \in {"exec", "done"}
             /\ pc = "exec" => ExecRequests = <<>> /\ ~Rendered
             /\ pc = "done" =>
                   /\ Len(ExecRequests) = 1
                   /\ ExecRequests[1].pod = pod
                   /\ ExecRequests[1].container = container
                   /\ Len(Statuses) = 1
                   /\ Statuses[1].Pod = pod /\ Statuses[1].Container = container
                   /\ output = <<Render(enumStatus)>>

(* The pod-and-container mode met a pod that is not Running. *)
C9_Witness ==
    /\ Mode(pod, container) = "container" /\ Fetched
    /\ NamedPod.Phase # "Running"
    /\ pc = "exit"

(* C10, as claimed: with no captured input and an empty argument vector, run
   fails with a fatal error before any request is sent to the cluster. *)
C10_NoCommandFailsBeforeCluster ==
    (pc \notin {"start", "resolved"} /\ captured = <<>> /\ args = <<>>) =>
        /\ pc \in {"error", "exit"}
        /\ exitCode = 1
        /\ requests = <<>>

(* C11: the command executed on every target is the argument vector given on
   the command line, unchanged, whenever that vector is not empty, with or
   without captured input; it is the one-element vector "sh" exactly when the
   vector given is empty and the captured input is not. *)
C11_CommandDefaulting ==
    \A i \in 1..Len(ExecRequests) :
        /\ argv # <<>> => ExecRequests[i].cmd = argv
        /\ (argv = <<>> /\ captured # <<>>) => ExecRequests[i].cmd = <<"sh">>
        /\ (ExecRequests[i].cmd = <<"sh">> /\ argv # <<"sh">>) =>
              (argv = <<>> /\ captured # <<>>)
        /\ enumStatus.Args = ExecRequests[i].cmd

(* A run given input and no argument executed the shell on three targets. *)
C11_Witness ==
    /\ pc = "done"
    /\ argv = <<>> /\ captured # <<>>
    /\ Len(ExecRequests) >= 3
    /\ \A i \in 1..Len(ExecRequests) : ExecRequests[i].cmd = <<"sh">>

(* The run is over. *)
Ended == pc \in {"done", "exit", "error"}
LastOutput == output[Len(output)]
EndedFatal == Ended /\ output # <<>> /\ LastOutput.kind = "fatal"

(* C12, as claimed: the process exit code is 1 when the run ended on a bad
   kubeconfig, a named pod that does not exist, a named pod that is not
   Running in the pod-and-container mode, or no command and no input; it is 0
   in every other run. *)
C12_ExitCodeOnlyListedFatal ==
    Ended =>
        exitCode =
            (IF \/ (EndedFatal /\ LastOutput.text = "kubeconfig")
                \/ (EndedFatal /\ LastOutput.text = "get pod"
                      /\ pod \notin Names(nsPods))
                \/ (EndedFatal /\ LastOutput = NotRunning(pod)
                      /\ Mode(pod, container) = "container")
                \/ (EndedFatal /\ LastOutput.text =
                        "No commands provided either by stdin or arguments.")
             THEN 1 ELSE 0)

(* C12, amended: the process exit code is 1 when the run ended on a fatal
   error: a bad kubeconfig, a failure to read standard input, no command and
   no input, a failed fetch of the named pod (not found or any other failure),
   a named pod not Running in the pod-and-container mode, or a failed pod
   listing in the all-pods mode; then nothing is rendered.  It is 0 in every
   other run, whatever codes the targets returned, and the result is
   rendered. *)
C12_ExitCode ==
    /\ ~Ended => exitCode = -2
    /\ Ended =>
          /\ exitCode = (IF EndedFatal THEN 1 ELSE 0)
          /\ EndedFatal <=> pc \in {"exit", "error"}
          /\ EndedFatal <=> ~Rendered
          /\ EndedFatal =>
                \/ LastOutput.text \in {"kubeconfig", "Failed to read stdin",
                       "No commands provided either by stdin or arguments."}
                \/ LastOutput.text = "get pod" /\ pod # ""
                      /\ requests = <<[op |-> "get", pod |-> pod, container |-> "",
                                       cmd |-> <<>>, ok |-> FALSE]>>
                \/ LastOutput = NotRunning(pod) /\ Mode(pod, container) = "container"
                      /\ Fetched /\ NamedPod.Phase # "Running"
                \/ LastOutput.text = "list pods" /\ Mode(pod, container) = "all"
                      /\ requests = <<[op |-> "list", pod |-> "", container |-> "",
                                       cmd |-> <<>>, ok |-> FALSE]>>
    /\ (requests # <<>> /\ ~requests[1].ok) => exitCode = 1
    /\ (Mode(pod, container) = "container" /\ Fetched /\ NamedPod.Phase # "Running")
          => exitCode = 1
    /\ (pc # "start" /\ captured = <<>> /\ argv = <<>>) => exitCode = 1

(* A run whose targets returned -1 and a non-zero exit code ended with the
   process exit code 0. *)
C12_Witness ==
    /\ pc = "done" /\ exitCode = 0
    /\ \E i, j \in 1..Len(Statuses) :
          Statuses[i].RetCode = -1 /\ Statuses[j].RetCode \in ExitCodeSamples

(* The number of statuses the pods before the i-th of the listing account for:
   one per container of each of them that is Running. *)
RECURSIVE EntriesBefore(_)
EntriesBefore(i) ==
    IF i <= 1 THEN 0
    ELSE EntriesBefore(i - 1)
         + (IF nsPods[i - 1].Phase = "Running" THEN Len(nsPods[i - 1].Containers) ELSE 0)

(* C13: in the all-pods mode the Statuses sequence has exactly one entry for
   each container of each listed pod in phase Running, the pods in list order
   and the containers of a pod in declared order, each entry carrying the code
   its own execution returned; a pod in another phase has no entry. *)
C13_AllPodsStatuses ==
    (pc = "done" /\ Mode(pod, container) = "all") =>
        /\ Len(Statuses) = EntriesBefore(Len(nsPods) + 1)
        /\ Len(outcomes) = Len(Statuses)
        /\ \A i \in 1..Len(nsPods) :
              IF nsPods[i].Phase = "Running"
              THEN \A k \in 1..Len(nsPods[i].Containers) :
                      LET n == EntriesBefore(i) + k IN
                      /\ Statuses[n].Pod = nsPods[i].Name
                      /\ Statuses[n].Container = nsPods[i].Containers[k]
                      /\ Statuses[n].RetCode = K8SExec_exec(outcomes[n]).retCode
                      /\ ExecRequests[n].pod = nsPods[i].Name
                      /\ ExecRequests[n].container = nsPods[i].Containers[k]
              ELSE \A n \in 1..Len(Statuses) : Statuses[n].Pod # nsPods[i].Name

(* The all-pods mode met a pod that is not Running followed by a Running pod
   of two containers whose executions returned different codes. *)
C13_Witness ==
    /\ pc = "done" /\ Mode(pod, container) = "all"
    /\ Len(nsPods) = 2
    /\ nsPods[1].Phase # "Running"
    /\ nsPods[2].Phase = "Running" /\ Len(nsPods[2].Containers) = 2
    /\ Len(Statuses) = 2
    /\ Statuses[1].RetCode \in ExitCodeSamples /\ Statuses[2].RetCode = 0

(* The table of the classifier as the documentation gives it. *)
FixedTexts ==
    (-1 :> "Internal app error") @@ (0 :> "Success") @@
    (1 :> "General error, unspecified error") @@ (2 :> "Misuse of shell builtins") @@
    (126 :> "Command cannot execute") @@ (127 :> "Command not found") @@
    (128 :> "Invalid argument to exit") @@ (255 :> "Exit status out of range")
SignalNames ==
    <<"SIGHUP", "SIGINT", "SIGQUIT", "SIGILL", "SIGTRAP", "SIGABRT/SIGIOT", "SIGBUS",
      "SIGFPE", "SIGKILL", "SIGUSR1", "SIGSEGV", "SIGUSR2", "SIGPIPE", "SIGALRM",
      "SIGTERM">>
FatalSignalText(n) ==
    "Fatal error signal " \o ToString(n) \o " (" \o SignalNames[n] \o ")"
SignalCodes == 129..143
Described == pc = "returned" /\ res.fn = "GetExitCodeDescription"

(* C14, as claimed: GetExitCodeDescription gives the table text for -1, 0, 1,
   2, 126, 127, 128 and 255, the text "Fatal error signal n (NAME)" with
   n = c - 128 for every code c in 129..143, 130 included, and the empty
   string for every other code. *)
C14_DescriptionTable ==
    Described =>
        res.ret = (IF res.code \in SignalCodes THEN FatalSignalText(res.code - 128)
                   ELSE IF res.code \in DOMAIN FixedTexts THEN FixedTexts[res.code]
                   ELSE "")

(* C14, amended: GetExitCodeDescription gives the table text for -1, 0, 1, 2,
   126, 127, 128 and 255; "Script terminated by Control-C (SIGINT)" for 130;
   "Fatal error signal n (NAME)" with n = c - 128 for every other code c in
   129..143; the empty string for every other code. *)
C14_DescriptionTableOf130 ==
    Described =>
        res.ret = (IF res.code = 130 THEN "Script terminated by Control-C (SIGINT)"
                   ELSE IF res.code \in SignalCodes THEN FatalSignalText(res.code - 128)
                   ELSE IF res.code \in DOMAIN FixedTexts THEN FixedTexts[res.code]
                   ELSE "")

(* The description of 130 was asked for. *)
C14_Witness ==
    /\ Described
    /\ res.code = 130
    /\ res.ret = "Script terminated by Control-C (SIGINT)"

Summarised == pc = "returned" /\ res.fn = "NewEnumerationStatus"

(* C15, as claimed: NewEnumerationStatus, of package cmd and of main.go,
   stores as the summary the captured input unchanged when it is at most 40
   characters long, the empty input included, and its first 40 characters
   followed by "... too long" when it is longer; it fails for no input. *)
C15_StdinSummary ==
    Summarised =>
        /\ ~res.ret.panic
        /\ res.ret.enum.Stdin =
              (IF Len(res.pipeCommand) <= SummaryLimit THEN res.pipeCommand
               ELSE SubSeq(res.pipeCommand, 1, SummaryLimit) \o TooLong)

Classified == pc = "returned" /\ res.fn = "GetExitCode"

(* C16, as claimed: GetExitCode, of package k8sexec and of main.go, returns
   (-1, "") for every error that is not a process-exit error; for a
   process-exit error carrying the code c it returns c and the description
   GetExitCodeDescription(c) gives: the table text, or the empty string when c
   is not in the table. *)
C16_GetExitCode ==
    Classified =>
        IF res.err.kind # "exit"
        THEN res.ret = [code |-> -1, desc |-> ""]
        ELSE /\ res.ret.code = res.err.code
             /\ res.ret.desc = (IF res.im = "cmd"
                                THEN GetExitCodeDescription(res.err.code)
                                ELSE main_getExitCodeDescription(res.err.code))
             /\ res.err.code \notin DOMAIN ExitCodes => res.ret.desc = ""

(* The controllers of ctls whose pod listing does not fail, in list order. *)
RECURSIVE LiveOnes(_, _)
LiveOnes(ctls, errs) ==
    IF ctls = <<>> THEN <<>>
    ELSE (IF Head(errs) THEN <<>> ELSE <<Head(ctls)>>) \o LiveOnes(Tail(ctls), Tail(errs))

(* The names of the pods a controller of ctls with a working listing selects. *)
ClaimedBy(ctls, errs) ==
    { nsPods[i].Name : i \in { j \in 1..Len(nsPods) :
          \E k \in 1..Len(ctls) : ~errs[k] /\ SelectedBy(nsPods[j], ctls[k]) } }

(* C17: when the pod listing for one controller's selector fails, the failure
   is swallowed: the resolution returns without error exactly what it returns
   for the namespace without that controller; the controller claims no pod
   and adds no representative, the controllers after it and the pass over the
   pods of the namespace are still processed. *)
C17_ListingErrorSwallowed ==
    (pc = "resolved" /\ res.errAt = "") =>
        /\ ~res.ret.err
        /\ res.ret.count = Len(nsPods)
        /\ res.ret =
              GetUniquePods(nsPods,
                  LiveOnes(res.deployments, res.depErrs),
                  NoErrs(Len(LiveOnes(res.deployments, res.depErrs))),
                  LiveOnes(res.statefulSets, res.stsErrs),
                  NoErrs(Len(LiveOnes(res.statefulSets, res.stsErrs))), "")
        /\ DOMAIN res.ret.deploymentPods = ClaimedBy(res.deployments, res.depErrs)
        /\ DOMAIN res.ret.statefulSetsPods = ClaimedBy(res.statefulSets, res.stsErrs)
        /\ \A i \in 1..Len(nsPods) :
              nsPods[i].Name \notin ClaimedBy(res.deployments, res.depErrs)
                                    \cup ClaimedBy(res.statefulSets, res.stsErrs)
                 => Occurrences(res.ret.uniquePods, nsPods[i].Name) = 1

(* The listing failed for a first deployment selecting a pod; the deployment
   after it, selecting a pod too, was processed, and a pod only the failed
   one selects was returned by the pass over the namespace. *)
C17_Witness ==
    /\ Resolved
    /\ Len(res.deployments) = 2
    /\ res.depErrs[1] /\ ~res.depErrs[2]
    /\ \E i, j \in 1..Len(nsPods) :
          /\ SelectedBy(nsPods[i], res.deployments[1])
          /\ ~SelectedBy(nsPods[i], res.deployments[2])
          /\ SelectedBy(nsPods[j], res.deployments[2])
          /\ res.ret.uniquePods = <<nsPods[j], nsPods[i]>>

(* The first pod of the namespace, in list order, carrying every label of
   matchLabels, as a sequence of one pod or none. *)
FirstSelected(matchLabels) ==
    LET idx == { i \in 1..Len(nsPods) : SelectedBy(nsPods[i], matchLabels) }
    IN IF idx = {} THEN <<>>
       ELSE <<nsPods[CHOOSE i \in idx : \A j \in idx : i <= j]>>

RECURSIVE Representatives(_, _)
Representatives(ctls, errs) ==
    IF ctls = <<>> THEN <<>>
    ELSE (IF Head(errs) THEN <<>> ELSE FirstSelected(Head(ctls)))
         \o Representatives(Tail(ctls), Tail(errs))

(* C18: GetUniquePods returns, in this order: for each deployment in list
   order the first pod of its selector's listing, nothing when the listing is
   empty; then the same for each stateful set in list order; then, in the
   order of the namespace listing, every pod whose name no controller listing
   contained.  Every pod of a controller's listing, not only the first, is
   recorded as claimed. *)
C18_ResultOrder ==
    Resolved =>
        LET claimedD == ClaimedBy(res.deployments, res.depErrs)
            claimedS == ClaimedBy(res.statefulSets, res.stsErrs)
        IN
        /\ res.ret.uniquePods =
              Representatives(res.deployments, res.depErrs)
              \o Representatives(res.statefulSets, res.stsErrs)
              \o SelectSeq(nsPods, LAMBDA p : p.Name \notin claimedD \cup claimedS)
        /\ DOMAIN res.ret.deploymentPods = claimedD
        /\ DOMAIN res.ret.statefulSetsPods = claimedS
        /\ \A n \in claimedD : res.ret.deploymentPods[n] >= 1
        /\ \A n \in claimedS : res.ret.statefulSetsPods[n] >= 1

(* A deployment selecting both pods of the namespace and a stateful set
   selecting none: only the deployment's first pod is returned, the second is
   claimed and not returned by the pass over the namespace. *)
C18_Witness ==
    /\ Resolved
    /\ Len(nsPods) = 2
    /\ Len(res.deployments) = 1 /\ ~res.depErrs[1]
    /\ Len(res.statefulSets) = 1 /\ ~res.stsErrs[1]
    /\ SelectedBy(nsPods[1], res.deployments[1])
    /\ SelectedBy(nsPods[2], res.deployments[1])
    /\ ~SelectedBy(nsPods[1], res.statefulSets[1])
    /\ ~SelectedBy(nsPods[2], res.statefulSets[1])
    /\ res.ret.uniquePods = <<nsPods[1]>>
    /\ DOMAIN res.ret.deploymentPods = {nsPods[1].Name, nsPods[2].Name}

StatusBuilt == pc = "returned" /\ res.fn = "NewExecutionStatus"
Newlines(text) == Cardinality({ i \in 1..Len(text) : text[i] = NL })

(* The lines stored for text are its split on newline: one line more than it
   has newlines, none holding a newline, and joined with a newline they give
   back text. *)
RoundTrip(text, lines) ==
    /\ Len(lines) = Newlines(text) + 1
    /\ \A i \in 1..Len(lines) : Newlines(lines[i]) = 0
    /\ Join(lines) = text
    /\ text = <<>> => lines = << <<>> >>

(* C19: NewExecutionStatus splits the error, stdout and stderr texts on
   newline so that joining the stored lines with a newline gives back the
   text, for every text; an empty text is stored as the sequence of the one
   empty line, never as the empty sequence. *)
C19_SplitJoinRoundTrip ==
    StatusBuilt =>
        /\ RoundTrip(res.error, res.ret.Error)
        /\ RoundTrip(res.stdout, res.ret.Stdout)
        /\ RoundTrip(res.stderr, res.ret.Stderr)

(* A status was built from an empty text, a text ending with a newline and a
   text of empty lines only. *)
C19_Witness ==
    /\ StatusBuilt
    /\ res.error = <<>>
    /\ res.stdout = <<"a", NL>>
    /\ res.stderr = <<NL, NL>>
    /\ res.ret.Stderr = << <<>>, <<>>, <<>> >>

(* C20: when a container name is given and no pod name, none of the three
   selection cases of run applies: no pod is fetched or listed, no command is
   executed, the result has no status; a run that passed its set-up renders
   that empty result and ends with exit code 0, and only a failed set-up
   (kubeconfig, reading the input, no command) ends it otherwise. *)
C20_ContainerWithoutPod ==
    (pc # "start" /\ pod = "" /\ container # "") =>
        /\ requests = <<>>
        /\ streams = <<>>
        /\ Statuses = <<>>
        /\ Ended
        /\ IF EndedFatal
           THEN LastOutput.text \in {"kubeconfig", "Failed to read stdin",
                    "No commands provided either by stdin or arguments."}
           ELSE /\ pc = "done"
                /\ exitCode = 0
                /\ output = <<Render(enumStatus)>>
                /\ output[1].enum.Statuses = <<>>
                /\ output[1].enum.Args = args

(* A run given a container name and no pod name, in a namespace with a Running
   pod holding that container, rendered the empty result. *)
C20_Witness ==
    /\ pc = "done"
    /\ pod = "" /\ container # ""
    /\ \E i \in 1..Len(nsPods) :
          /\ nsPods[i].Phase = "Running"
          /\ \E k \in 1..Len(nsPods[i].Containers) : nsPods[i].Containers[k] = container
    /\ output = <<Render(enumStatus)>>
    /\ exitCode = 0

(* What a controller with an empty match-labels map and a working listing
   does, offset being the number of pods appended before its turn. *)
ClaimsAll(claimed, offset) ==
    /\ mapToLabelSelector(EmptyMap) = {}
    /\ GetPods(nsPods, mapToLabelSelector(EmptyMap)) = nsPods
    /\ DOMAIN claimed = Names(nsPods)
    /\ nsPods # <<>> => res.ret.uniquePods[offset + 1] = nsPods[1]
    /\ res.ret.uniquePods =
          Representatives(res.deployments, res.depErrs)
          \o Representatives(res.statefulSets, res.stsErrs)
    /\ \A i \in 1..Len(nsPods) :
          Occurrences(res.ret.uniquePods, nsPods[i].Name) =
              Cardinality({ k \in 1..Len(res.deployments) :
                  ~res.depErrs[k] /\ FirstSelected(res.deployments[k]) = <<nsPods[i]>> })
              + Cardinality({ k \in 1..Len(res.statefulSets) :
                  ~res.stsErrs[k] /\ FirstSelected(res.statefulSets[k]) = <<nsPods[i]>> })

(* C21: a deployment or stateful set whose match-labels map is empty gives
   the empty selector, so its pod listing, when it does not fail, is the whole
   listing of the namespace: it contributes the first pod of the namespace as
   its representative and claims every pod, and no pod is added by the pass
   over the pods of the namespace. *)
C21_EmptyMatchLabelsClaimsAll ==
    Resolved =>
        /\ \A k \in 1..Len(res.deployments) :
              (res.deployments[k] = EmptyMap /\ ~res.depErrs[k]) =>
                  ClaimsAll(res.ret.deploymentPods,
                      Len(Representatives(SubSeq(res.deployments, 1, k - 1),
                                          SubSeq(res.depErrs, 1, k - 1))))
        /\ \A k \in 1..Len(res.statefulSets) :
              (res.statefulSets[k] = EmptyMap /\ ~res.stsErrs[k]) =>
                  ClaimsAll(res.ret.statefulSetsPods,
                      Len(Representatives(res.deployments, res.depErrs))
                      + Len(Representatives(SubSeq(res.statefulSets, 1, k - 1),
                                            SubSeq(res.stsErrs, 1, k - 1))))

(* A namespace of a labelled and an unlabelled pod with a deployment selecting
   none of them and a stateful set of empty match labels: only the first pod
   of the namespace is returned, once. *)
C21_Witness ==
    /\ Resolved
    /\ Len(nsPods) = 2
    /\ nsPods[1].Labels # nsPods[2].Labels
    /\ Len(res.deployments) = 1 /\ ~res.depErrs[1]
    /\ FirstSelected(res.deployments[1]) = <<>>
    /\ Len(res.statefulSets) = 1 /\ ~res.stsErrs[1]
    /\ res.statefulSets[1] = EmptyMap
    /\ res.ret.uniquePods = <<nsPods[1]>>
    /\ DOMAIN res.ret.statefulSetsPods = {nsPods[1].Name, nsPods[2].Name}

====
